---- MODULE Spec2Model ----
(***************************************************************************)
(* Model of the mini-lsm core: the k-way MergeIterator                     *)
(* (iterators/merge_iterator.rs), the SsTableBuilder (table/builder.rs)    *)
(* and the Block codec (block.rs).                                         *)
(***************************************************************************)
EXTENDS Integers, Sequences, FiniteSets, TLC

VARIABLES
    src,        \* merge: src[i] is the content of source iterator i (index = priority)
    pos,        \* merge: pos[i] is the 1-based position of source iterator i
    iters,      \* MergeIterator.iters: the indices of the wrappers held by the BinaryHeap
    current,    \* MergeIterator.current: None or Some(index of the held wrapper)
    last,       \* merge: what the last next() call did: kind ("ok", "err", "empty"), winner
                \* idx, its key and value, the tied wrappers, the error returned (err:
                \* the source it came from) and the source whose next() failed (srcerr)
    out,        \* merge: the (key, value) pairs the caller read through key()/value()
    resolved,   \* merge: keys whose next() call returned Ok
    nfail,      \* merge: number of source next() calls that returned Err so far
    builder,    \* SsTableBuilder.builder: the in-progress BlockBuilder
    first_key,  \* SsTableBuilder.first_key
    last_key,   \* SsTableBuilder.last_key
    data,       \* SsTableBuilder.data: the encoded blocks finalized so far
    meta,       \* SsTableBuilder.meta
    block_size, \* SsTableBuilder.block_size
    bstate,     \* builder: "open", "panicked" (assert failed), "built", "ioerr"
    added,      \* builder: the entries handed to add so far, in order
    rotations,  \* builder: number of rotations forced by add
    file,       \* builder: the byte buffer persisted by FileObject::create
    table,      \* builder: <<>> or <<the SsTable returned by build>>
    blocks,     \* builder: the encoded blocks appended to data, one per rotate_block
    block,      \* codec: the Block handed to encode
    enc,        \* codec: <<>> or <<the bytes returned by encode>>
    dec         \* codec: <<>> or <<the Block returned by decode>>

mvars == <<src, pos, iters, current, last, out, resolved, nfail>>
bvars == <<builder, first_key, last_key, data, meta, block_size, bstate, added,
           rotations, file, table, blocks>>
cvars == <<block, enc, dec>>
vars == <<mvars, bvars, cvars>>

----------------------------------------------------------------------------
(* Bounds *)
MaxIters == 3       \* number of source iterators handed to create: 0..MaxIters
MaxKey == 2         \* source keys are 1..MaxKey
MaxFail == 1        \* source next() calls that may return Err in one run

MaxAdds == 4        \* add calls on one SsTableBuilder
MaxAddKey == 3      \* the keys handed to add are the one-byte strings <<1>>..<<MaxAddKey>>
MaxValLen == 1      \* values are 0..MaxValLen bytes long

MaxDataLen == 2     \* codec: Block.data is 0..MaxDataLen bytes long
MaxOffsets == 2     \* codec: Block.offsets has 0..MaxOffsets entries

\* an Option is a set with at most one element
None == {}
Some(x) == {x}

----------------------------------------------------------------------------
(* Source iterators: the StorageIterator capability set consumed by the merge *)

\* the value source i holds for key k: distinct per source, so that it tells sources apart
ValueOf(i, k) == 10 * (i + 1) + k

RECURSIVE SortedEntries(_, _)
\* the strictly ascending entry sequence of source i holding the key set ks
SortedEntries(i, ks) ==
    IF ks = {} THEN <<>>
    ELSE LET k == CHOOSE x \in ks : \A y \in ks : x <= y
         IN <<[key |-> k, value |-> ValueOf(i, k)]>> \o SortedEntries(i, ks \ {k})

IterValid(i, p) == p[i] <= Len(src[i])
IterKey(i, p) == IF IterValid(i, p) THEN src[i][p[i]].key ELSE 0
IterValue(i, p) == IF IterValid(i, p) THEN src[i][p[i]].value ELSE 0
\* a source whose next() returns Ok and does not move
IterNext_Stuck(i, p) == p
IterNext(i, p) == [p EXCEPT ![i] = @ + 1]

----------------------------------------------------------------------------
(* MergeIterator *)

\* HeapWrapper::cmp: key order, then index order, reversed. -1 Less, 0 Equal, 1 Greater
cmp(a, b, p) ==
    LET ka == IterKey(a, p)
        kb == IterKey(b, p)
        fwd == IF ka < kb THEN -1
               ELSE IF ka > kb THEN 1
               ELSE IF a < b THEN -1
               ELSE IF a > b THEN 1
               ELSE 0
    IN  -fwd

\* BinaryHeap::pop: the greatest wrapper under cmp
HeapPop(heap, p) == CHOOSE w \in heap : \A o \in heap : cmp(w, o, p) >= 0

\* create that pushes every iterator, valid or not
create_NoFilter(n, p) == 0..(n - 1)

\* MergeIterator::create: keep the valid iterators, with their positional index
create(n, p) == {i \in 0..(n - 1) : IterValid(i, p)}

RECURSIVE DrainHeap_KeepDup(_, _, _, _, _)
\* DrainHeap that leaves the wrappers showing the winner's key where they are
DrainHeap_KeepDup(heap, temp, p, K, failAt) ==
    IF heap = {} THEN [iters |-> {}, temp |-> temp, pos |-> p, err |-> FALSE, errOf |-> None]
    ELSE LET w == HeapPop(heap, p)
         IN  DrainHeap_KeepDup(heap \ {w},
                               IF IterValid(w, p) THEN temp \cup {w} ELSE temp,
                               p, K, failAt)

RECURSIVE DrainHeap_SwallowErr(_, _, _, _, _)
\* DrainHeap that ignores the Result of a duplicate's next()
DrainHeap_SwallowErr(heap, temp, p, K, failAt) ==
    IF heap = {} THEN [iters |-> {}, temp |-> temp, pos |-> p, err |-> FALSE, errOf |-> None]
    ELSE LET w == HeapPop(heap, p)
             p2 == IF IterKey(w, p) = K /\ w \notin failAt THEN IterNext(w, p) ELSE p
         IN  DrainHeap_SwallowErr(heap \ {w},
                                  IF IterValid(w, p2) THEN temp \cup {w} ELSE temp,
                                  p2, K, failAt)

RECURSIVE DrainHeap_PushInvalid(_, _, _, _, _)
\* DrainHeap that pushes every popped wrapper back, exhausted or not
DrainHeap_PushInvalid(heap, temp, p, K, failAt) ==
    IF heap = {} THEN [iters |-> {}, temp |-> temp, pos |-> p, err |-> FALSE, errOf |-> None]
    ELSE LET w == HeapPop(heap, p)
             rest == heap \ {w}
         IN  IF IterKey(w, p) = K /\ w \in failAt
             THEN [iters |-> rest, temp |-> {}, pos |-> p, err |-> TRUE, errOf |-> Some(w)]
             ELSE DrainHeap_PushInvalid(rest, temp \cup {w},
                                        IF IterKey(w, p) = K THEN IterNext(w, p) ELSE p,
                                        K, failAt)

RECURSIVE DrainHeap_AdvanceAll(_, _, _, _, _)
\* DrainHeap that advances every popped wrapper, whatever its key
DrainHeap_AdvanceAll(heap, temp, p, K, failAt) ==
    IF heap = {} THEN [iters |-> {}, temp |-> temp, pos |-> p, err |-> FALSE, errOf |-> None]
    ELSE LET w == HeapPop(heap, p)
             rest == heap \ {w}
         IN  IF w \in failAt
             THEN [iters |-> rest, temp |-> {}, pos |-> p, err |-> TRUE, errOf |-> Some(w)]
             ELSE LET p2 == IterNext(w, p)
                  IN  DrainHeap_AdvanceAll(rest,
                                           IF IterValid(w, p2) THEN temp \cup {w} ELSE temp,
                                           p2, K, failAt)

RECURSIVE DrainHeap(_, _, _, _, _)
\* the while-let loop of next(): pop every other wrapper, advance the ones
\* showing the winner's key K, keep the valid ones in temp_heap. failAt is the
\* source whose next() returns Err (None: no source fails); the ? then returns
\* with temp_heap dropped and the wrappers not yet popped still in the heap.
DrainHeap(heap, temp, p, K, failAt) ==
    IF heap = {} THEN [iters |-> {}, temp |-> temp, pos |-> p, err |-> FALSE, errOf |-> None]
    ELSE LET w == HeapPop(heap, p)
             rest == heap \ {w}
         IN  IF IterKey(w, p) = K
             THEN IF w \in failAt
                  THEN [iters |-> rest, temp |-> {}, pos |-> p, err |-> TRUE, errOf |-> Some(w)]
                  ELSE LET p2 == IterNext(w, p)
                       IN  DrainHeap(rest,
                                     IF IterValid(w, p2) THEN temp \cup {w} ELSE temp,
                                     p2, K, failAt)
             ELSE DrainHeap(rest,
                            IF IterValid(w, p) THEN temp \cup {w} ELSE temp,
                            p, K, failAt)

\* is_valid that only asks whether a wrapper is held
is_valid_HeldOnly == current # None

\* MergeIterator::is_valid
is_valid == \E w \in current : IterValid(w, pos)
\* MergeIterator::key / value: what the call returns; assert!(is_valid())
\* panics when not valid, and then nothing is returned (None)
key == {IterKey(w, pos) : w \in {c \in current : is_valid}}
value == {IterValue(w, pos) : w \in {c \in current : is_valid}}

\* the sources whose next() one call of MergeIterator::next may invoke
Advanced(heap, p) ==
    IF heap = {} THEN {}
    ELSE LET w == HeapPop(heap, p)
         IN  {i \in heap : IterKey(i, p) = IterKey(w, p)}

\* MergeIterator::next. failAt: the source whose next() returns Err during this
\* call (None: none does); adv: whether the failed winner moved on (1) or not (0).
next(failAt, adv) ==
    IF iters = {}
    THEN /\ failAt = None /\ adv = 0
         /\ current' = None
         /\ last' = [kind |-> "empty", idx |-> None, key |-> 0, value |-> 0, tie |-> {},
                  err |-> None, srcerr |-> None]
         /\ UNCHANGED <<src, pos, iters, out, resolved, nfail>>
         /\ UNCHANGED <<bvars, cvars>>
    ELSE LET winner == HeapPop(iters, pos)
             current_key == IterKey(winner, pos)
             tied == Advanced(iters, pos)
             r == DrainHeap(iters \ {winner}, {}, pos, current_key, failAt)
             info(kd, e) == [kind |-> kd, idx |-> Some(winner), key |-> current_key,
                             value |-> IterValue(winner, pos), tie |-> tied,
                             err |-> e, srcerr |-> failAt]
         IN  /\ failAt \in {None} \cup {Some(i) : i \in tied}
             /\ failAt # None => nfail < MaxFail
             /\ failAt # Some(winner) => adv = 0
             /\ src' = src
             /\ UNCHANGED <<bvars, cvars>>
             /\ IF r.err
                THEN \* a shadowed duplicate failed: winner and temp_heap are dropped
                     /\ iters' = r.iters
                     /\ pos' = r.pos
                     /\ current' = current
                     /\ last' = info("err", r.errOf)
                     /\ nfail' = nfail + 1
                     /\ UNCHANGED <<out, resolved>>
                ELSE IF failAt = Some(winner)
                THEN \* the winner failed: it stays in current, not reinserted
                     /\ iters' = r.temp
                     /\ pos' = [r.pos EXCEPT ![winner] = @ + adv]
                     /\ current' = Some(winner)
                     /\ last' = info("err", Some(winner))
                     /\ nfail' = nfail + 1
                     /\ UNCHANGED <<out, resolved>>
                ELSE LET p2 == IterNext(winner, r.pos)
                         back == IterValid(winner, p2)
                     IN  /\ pos' = p2
                         /\ iters' = IF back THEN r.temp \cup {winner} ELSE r.temp
                         /\ current' = IF back THEN None ELSE Some(winner)
                         /\ last' = info("ok", None)
                         /\ nfail' = nfail
                         /\ resolved' = resolved \cup {current_key}
                         \* the caller reads key()/value() when is_valid()
                         /\ out' = IF is_valid' THEN Append(out, <<CHOOSE k \in key' : TRUE, CHOOSE v \in value' : TRUE>>) ELSE out

MergeInit ==
    \E n \in 0..MaxIters :
      \E ks \in [0..(n - 1) -> SUBSET (1..MaxKey)] :
        /\ src = [i \in 0..(n - 1) |-> SortedEntries(i, ks[i])]
        /\ pos = [i \in 0..(n - 1) |-> 1]
        /\ iters = create(n, pos)
        /\ current = None
        /\ last = [kind |-> "none", idx |-> None, key |-> 0, value |-> 0, tie |-> {},
                  err |-> None, srcerr |-> None]
        /\ out = <<>>
        /\ resolved = {}
        /\ nfail = 0

----------------------------------------------------------------------------
(* Bytes *)

\* BufMut::put_u16 / put_u32: big-endian. U32BE keeps the low 32 bits of n,
\* which is all of n for the lengths a model buffer has (usize as u32)
U16BE(n) == <<(n \div 256) % 256, n % 256>>
\* put_u32_le: the little-endian footer
U32BE_Little(n) == <<n % 256, (n \div 256) % 256, (n \div 65536) % 256, (n \div 16777216) % 256>>
U32BE(n) == <<(n \div 16777216) % 256, (n \div 65536) % 256, (n \div 256) % 256, n % 256>>
\* u16::from_be_bytes
FromU16BE(hi, lo) == hi * 256 + lo
FromU32BE(b) == ((b[1] * 256 + b[2]) * 256 + b[3]) * 256 + b[4]

RECURSIVE Flatten(_)
\* concatenation of a sequence of byte sequences
Flatten(ss) == IF ss = <<>> THEN <<>> ELSE Head(ss) \o Flatten(Tail(ss))

\* s[from+1 .. to], the Rust slice s[from..to]
Slice(s, from, to) == SubSeq(s, from + 1, to)

\* lexicographic order of byte strings (Vec<u8> / KeySlice Ord)
RECURSIVE KeyLess(_, _)
KeyLess(a, b) ==
    IF b = <<>> THEN FALSE
    ELSE IF a = <<>> THEN TRUE
    ELSE IF Head(a) # Head(b) THEN Head(a) < Head(b)
    ELSE KeyLess(Tail(a), Tail(b))
KeyLeq(a, b) == a = b \/ KeyLess(a, b)

----------------------------------------------------------------------------
(* Block codec (block.rs) *)

\* Block::encode: data, each offset as u16, the number of offsets as u16
encode(blk) ==
    blk.data \o Flatten([i \in 1..Len(blk.offsets) |-> U16BE(blk.offsets[i])])
             \o U16BE(Len(blk.offsets) % 65536)

\* decode that reads each offset low byte first
decode_LowByteFirst(bytes) ==
    LET total_len == Len(bytes)
        num_offsets == FromU16BE(bytes[total_len - 1], bytes[total_len])
        offsets_start == total_len - 2 - num_offsets * 2
        offsets_region == Slice(bytes, offsets_start, total_len - 2)
    IN  [data |-> Slice(bytes, 0, offsets_start),
         offsets |-> [i \in 1..(Len(offsets_region) \div 2) |->
                        FromU16BE(offsets_region[2 * i], offsets_region[2 * i - 1])]]

\* Block::decode
decode(bytes) ==
    LET total_len == Len(bytes)
        num_offsets == FromU16BE(bytes[total_len - 1], bytes[total_len])
        offsets_len == num_offsets * 2
        offsets_start == total_len - 2 - offsets_len
        data_region == Slice(bytes, 0, offsets_start)
        offsets_region == Slice(bytes, offsets_start, total_len - 2)
    IN  [data |-> data_region,
         offsets |-> [i \in 1..(Len(offsets_region) \div 2) |->
                        FromU16BE(offsets_region[2 * i - 1], offsets_region[2 * i])]]

\* the caller of the codec: encode the block, then decode the bytes
CodecEncode ==
    /\ enc = <<>>
    /\ enc' = <<encode(block)>>
    /\ UNCHANGED <<block, dec, mvars, bvars>>
CodecDecode ==
    /\ enc # <<>> /\ dec = <<>>
    /\ dec' = <<decode(enc[1])>>
    /\ UNCHANGED <<block, enc, mvars, bvars>>

\* the bytes and the u16 offsets tried: both halves of a u16 matter
ByteSamples == {0, 1, 255}
OffsetSamples == {0, 1, 258, 65535}
SeqsUpTo(S, n) == UNION {[1..m -> S] : m \in 0..n}
CodecInit ==
    /\ block \in [data : SeqsUpTo(ByteSamples, MaxDataLen),
                offsets : SeqsUpTo(OffsetSamples, MaxOffsets)]
    /\ enc = <<>>
    /\ dec = <<>>
CodecIdle ==
    /\ block = [data |-> <<>>, offsets |-> <<>>]
    /\ enc = <<>>
    /\ dec = <<>>

----------------------------------------------------------------------------
(* Block builder: the collaborator behind BlockBuilder::new / add / build *)

\* the encoded form of one entry inside Block.data
EncodeEntry(k, v) == U16BE(Len(k)) \o k \o U16BE(Len(v)) \o v

BlockBuilder_new(bs) == [data |-> <<>>, offsets |-> <<>>, block_size |-> bs]
\* encoded size of the block under construction
BlockBuilder_size(bb) == Len(bb.data) + 2 * Len(bb.offsets) + 2
\* BlockBuilder::add: the entry is accepted iff the block stays within block_size
BlockBuilder_fits(bb, k, v) ==
    BlockBuilder_size(bb) + Len(EncodeEntry(k, v)) + 2 <= bb.block_size
BlockBuilder_add(bb, k, v) ==
    [bb EXCEPT !.offsets = Append(@, Len(bb.data) % 65536),
               !.data = @ \o EncodeEntry(k, v)]
\* BlockBuilder::build
BlockBuilder_build(bb) == [data |-> bb.data, offsets |-> bb.offsets]

\* the entries of a decoded block, read back through its offsets
BlockEntries(blk) ==
    LET n == Len(blk.offsets)
        stop(i) == IF i = n THEN Len(blk.data) ELSE blk.offsets[i + 1]
        entry(i) ==
            LET e == Slice(blk.data, blk.offsets[i], stop(i))
                kl == FromU16BE(e[1], e[2])
                vl == FromU16BE(e[kl + 3], e[kl + 4])
            IN  <<Slice(e, 2, 2 + kl), Slice(e, kl + 4, kl + 4 + vl)>>
    IN  [i \in 1..n |-> entry(i)]

----------------------------------------------------------------------------
(* SsTableBuilder (table/builder.rs) *)

\* BlockMeta::encode_block_meta: the block metas in table order
encode_block_meta(ms) ==
    Flatten([i \in 1..Len(ms) |->
               U32BE(ms[i].offset)
               \o U16BE(Len(ms[i].first_key)) \o ms[i].first_key
               \o U16BE(Len(ms[i].last_key)) \o ms[i].last_key])

\* the builder's fields as one record
Self == [builder |-> builder, first_key |-> first_key, last_key |-> last_key,
         data |-> data, meta |-> meta, block_size |-> block_size]

\* rotate_block that stores the two keys of the block the wrong way round
rotate_block_SwapKeys(self) ==
    LET encoded == encode(BlockBuilder_build(self.builder))
    IN  [self EXCEPT !.builder = BlockBuilder_new(self.block_size),
                     !.meta = Append(@, [offset |-> Len(self.data),
                                         first_key |-> self.last_key,
                                         last_key |-> self.first_key]),
                     !.first_key = <<>>,
                     !.last_key = <<>>,
                     !.data = @ \o encoded]

\* rotate_block that reads data.len() after the block was appended
rotate_block_OffsetAfter(self) ==
    LET encoded == encode(BlockBuilder_build(self.builder))
    IN  [self EXCEPT !.builder = BlockBuilder_new(self.block_size),
                     !.meta = Append(@, [offset |-> Len(self.data) + Len(encoded),
                                         first_key |-> self.first_key,
                                         last_key |-> self.last_key]),
                     !.first_key = <<>>,
                     !.last_key = <<>>,
                     !.data = @ \o encoded]

\* SsTableBuilder::rotate_block
rotate_block(self) ==
    LET encoded == encode(BlockBuilder_build(self.builder))
    IN  [self EXCEPT !.builder = BlockBuilder_new(self.block_size),
                     !.meta = Append(@, [offset |-> Len(self.data),
                                         first_key |-> self.first_key,
                                         last_key |-> self.last_key]),
                     !.first_key = <<>>,
                     !.last_key = <<>>,
                     !.data = @ \o encoded]

\* estimated_size that also counts the block under construction
estimated_size_WithCurrent == Len(data) + BlockBuilder_size(builder)

\* SsTableBuilder::estimated_size
estimated_size == Len(data)

SetSelf(s) ==
    /\ builder' = s.builder
    /\ first_key' = s.first_key
    /\ last_key' = s.last_key
    /\ data' = s.data
    /\ meta' = s.meta
    /\ block_size' = s.block_size

\* add that rotates a full block and forgets the entry that did not fit
add_DropPending(k, v) ==
    /\ bstate = "open"
    /\ Len(added) < MaxAdds
    /\ added' = Append(added, <<k, v>>)
    /\ LET s1 == IF Self.first_key = <<>> THEN [Self EXCEPT !.first_key = k] ELSE Self
       IN  IF BlockBuilder_fits(s1.builder, k, v)
           THEN /\ SetSelf([s1 EXCEPT !.builder = BlockBuilder_add(@, k, v),
                                      !.last_key = k])
                /\ UNCHANGED <<bstate, rotations>>
           ELSE /\ SetSelf([rotate_block(s1) EXCEPT !.first_key = k, !.last_key = k])
                /\ rotations' = rotations + 1
                /\ bstate' = bstate
    /\ blocks' = IF data' = data THEN blocks
                 ELSE Append(blocks, Slice(data', Len(data), Len(data')))
    /\ UNCHANGED <<file, table>>
    /\ UNCHANGED <<mvars, cvars>>

\* add without the assert: an entry the fresh block rejects is skipped
add_NoAssert(k, v) ==
    /\ bstate = "open"
    /\ Len(added) < MaxAdds
    /\ added' = Append(added, <<k, v>>)
    /\ LET s1 == IF Self.first_key = <<>> THEN [Self EXCEPT !.first_key = k] ELSE Self
       IN  IF BlockBuilder_fits(s1.builder, k, v)
           THEN /\ SetSelf([s1 EXCEPT !.builder = BlockBuilder_add(@, k, v),
                                      !.last_key = k])
                /\ UNCHANGED <<bstate, rotations>>
           ELSE LET s2 == rotate_block(s1)
                IN  /\ SetSelf([s2 EXCEPT !.builder = IF BlockBuilder_fits(@, k, v)
                                                      THEN BlockBuilder_add(@, k, v)
                                                      ELSE @,
                                          !.first_key = k,
                                          !.last_key = k])
                    /\ rotations' = rotations + 1
                    /\ bstate' = bstate
    /\ blocks' = IF data' = data THEN blocks
                 ELSE Append(blocks, Slice(data', Len(data), Len(data')))
    /\ UNCHANGED <<file, table>>
    /\ UNCHANGED <<mvars, cvars>>

\* SsTableBuilder::add
add(k, v) ==
    /\ bstate = "open"
    /\ Len(added) < MaxAdds
    /\ added' = Append(added, <<k, v>>)
    /\ LET s1 == IF Self.first_key = <<>> THEN [Self EXCEPT !.first_key = k] ELSE Self
       IN  IF BlockBuilder_fits(s1.builder, k, v)
           THEN /\ SetSelf([s1 EXCEPT !.builder = BlockBuilder_add(@, k, v),
                                      !.last_key = k])
                /\ UNCHANGED <<bstate, rotations>>
           ELSE LET s2 == rotate_block(s1)
                IN  IF ~BlockBuilder_fits(s2.builder, k, v)
                    THEN \* assert!(self.builder.add(key, value)) fails
                         /\ SetSelf(s2)
                         /\ bstate' = "panicked"
                         /\ rotations' = rotations + 1
                    ELSE /\ SetSelf([s2 EXCEPT !.builder = BlockBuilder_add(@, k, v),
                                               !.first_key = k,
                                               !.last_key = k])
                         /\ rotations' = rotations + 1
                         /\ bstate' = bstate
    /\ blocks' = IF data' = data THEN blocks
                 ELSE Append(blocks, Slice(data', Len(data), Len(data')))
    /\ UNCHANGED <<file, table>>
    /\ UNCHANGED <<mvars, cvars>>

\* SsTableBuilder::build. io_ok: whether FileObject::create returns Ok
build(io_ok) ==
    /\ bstate = "open"
    /\ LET s == rotate_block(Self)
           meta_offset == Len(s.data)
           buf == s.data \o encode_block_meta(s.meta) \o U32BE(meta_offset)
       IN  /\ SetSelf(s)
           /\ IF io_ok
              THEN /\ bstate' = "built"
                   /\ file' = buf
                   /\ table' = <<[first_key |-> s.meta[1].first_key,
                                  last_key |-> s.meta[1].last_key,
                                  block_meta |-> s.meta,
                                  block_meta_offset |-> meta_offset]>>
              ELSE /\ bstate' = "ioerr"
                   /\ file' = <<>>
                   /\ table' = <<>>
    /\ blocks' = Append(blocks, Slice(data', Len(data), Len(data')))
    /\ UNCHANGED <<added, rotations>>
    /\ UNCHANGED <<mvars, cvars>>

\* the block sizes tried: 9 holds one entry with an empty value and rejects a
\* longer one even when empty; 17 holds two entries unless both values are long
BlockSizes == {9, 17}
\* keys are non-empty byte strings; values are 0..MaxValLen bytes
Keys == {<<k>> : k \in 1..MaxAddKey}
Values == {[i \in 1..n |-> 200 + i] : n \in 0..MaxValLen}

\* SsTableBuilder::new
BuilderNew(bs) ==
    /\ builder = BlockBuilder_new(bs)
    /\ first_key = <<>>
    /\ last_key = <<>>
    /\ data = <<>>
    /\ meta = <<>>
    /\ block_size = bs
    /\ bstate = "open"
    /\ added = <<>>
    /\ rotations = 0
    /\ file = <<>>
    /\ table = <<>>
    /\ blocks = <<>>

----------------------------------------------------------------------------
(* Specifications *)

\* the merge iterator over every choice of sources; the table builder is idle
Init == MergeInit /\ BuilderNew(17) /\ CodecIdle
Next == \E failAt \in {None} \cup {Some(i) : i \in DOMAIN src}, adv \in {0, 1} : next(failAt, adv)
Spec == Init /\ [][Next]_vars

\* the merge iterator over sources whose next() never fails
NextNoFail == next(None, 0)
SpecNoFail == Init /\ [][NextNoFail]_vars
\* next() changes a variable in every state but the exhausted one that has
\* already returned Ok(()): this is ENABLED <<NextNoFail>>_vars, as
\* NextEnabledLemma states
NextEnabled == ~(iters = {} /\ current = None /\ last.kind = "empty")
NextEnabledLemma == NextEnabled <=> ENABLED <<NextNoFail>>_vars
\* the same, with a caller that keeps calling next(): WF_vars(NextNoFail),
\* written with NextEnabled for its ENABLED
SpecNoFailFair ==
    /\ SpecNoFail
    /\ ([]<>~NextEnabled \/ []<><<NextNoFail>>_vars)

\* the table builder; the merge iterator is idle, over zero iterators
MergeIdle ==
    /\ src = <<>> /\ pos = <<>> /\ iters = {} /\ current = None
    /\ last = [kind |-> "none", idx |-> None, key |-> 0, value |-> 0, tie |-> {},
                  err |-> None, srcerr |-> None]
    /\ out = <<>> /\ resolved = {} /\ nfail = 0
InitBuilder == MergeIdle /\ CodecIdle /\ \E bs \in BlockSizes : BuilderNew(bs)
NextBuilder ==
    \/ \E k \in Keys, v \in Values : add(k, v)
    \/ \E io_ok \in BOOLEAN : build(io_ok)
SpecBuilder == InitBuilder /\ [][NextBuilder]_vars

\* the block codec over every block within the bounds; merge and builder are idle
InitCodec == MergeIdle /\ BuilderNew(17) /\ CodecInit
NextCodec == CodecEncode \/ CodecDecode
SpecCodec == InitCodec /\ [][NextCodec]_vars

----------------------------------------------------------------------------
(* Merge iterator: claims *)

\* the sources that hold key k
Holders(k) == {i \in DOMAIN src : \E j \in 1..Len(src[i]) : src[i][j].key = k}
AllKeys == {k \in 1..MaxKey : Holders(k) # {}}
MinIdx(S) == CHOOSE i \in S : \A j \in S : i <= j

RECURSIVE MergedFrom(_)
\* keys ks ascending, each with the value of its lowest-indexed holder
MergedFrom(ks) ==
    IF ks = {} THEN <<>>
    ELSE LET k == CHOOSE x \in ks : \A y \in ks : x <= y
         IN <<(<<k, ValueOf(MinIdx(Holders(k)), k)>>)>> \o MergedFrom(ks \ {k})

\* C1: once the merge is exhausted, the pairs the caller read through
\* key()/value() are the keys of all sources, ascending, each once, each with
\* the value of the lowest-indexed source that holds it.
C1_MergedStream == last.kind = "empty" => out = MergedFrom(AllKeys)

\* C2: after a next() call that removed a winner, is_valid() is true and
\* key()/value() return the key and value the winner had when it was removed.
C2_WinnerHeld ==
    last.kind = "ok" => is_valid /\ key = {last.key} /\ value = {last.value}

\* C3: when two or more wrappers tie on the minimum key at a next() call, the
\* smallest index is the winner, its value is the one exposed, and no other
\* holder's value for that key is ever read by the caller.
C3_TieBreak ==
    (last.kind = "ok" /\ Cardinality(last.tie) >= 2) =>
        /\ last.idx = Some(MinIdx(last.tie))
        /\ is_valid /\ value = {ValueOf(MinIdx(last.tie), last.key)}
        /\ \A j \in 1..Len(out) :
              out[j][1] = last.key => out[j][2] = ValueOf(MinIdx(last.tie), last.key)

\* the part of C3 about the selection alone: the winner of a tie is the
\* smallest index among the tied wrappers
TieWinnerIsMinIdx ==
    (last.kind # "none" /\ last.tie # {}) => last.idx = Some(MinIdx(last.tie))

\* C4: after a next() call that returned Ok with winner key K, no wrapper in
\* the heap presents K or a smaller key, at that point and ever after: a
\* resolved key is never selected again.
C4_NoStaleKey == \A i \in iters : \A k \in resolved : IterKey(i, pos) > k
\* a three-way tie was resolved and the winner was reinserted
C4_Witness ==
    /\ last.kind = "ok" /\ last.tie = {0, 1, 2}
    /\ last.idx \subseteq iters /\ Cardinality(iters) >= 2

\* C5: a merge over zero iterators, or over iterators that are all invalid at
\* create, is invalid from the start, and next() returns Ok and leaves the
\* heap empty and current None.
C5_EmptyMerge ==
    (\A i \in DOMAIN src : src[i] = <<>>) =>
        /\ iters = {} /\ current = None /\ ~is_valid
        /\ last.kind \in {"none", "empty"} /\ out = <<>> /\ nfail = 0
\* next() was called on a merge of MaxIters exhausted iterators
C5_Witness ==
    /\ Cardinality(DOMAIN src) = MaxIters
    /\ \A i \in DOMAIN src : src[i] = <<>>
    /\ last.kind = "empty"
\* C13: when a source's next() returns Err during a call of next(), on a
\* shadowed duplicate or on the winner, the call returns Err with that
\* source's error; a call in which no source fails returns Ok.
C13_ErrorPropagated ==
    /\ last.srcerr # None => (last.kind = "err" /\ last.err = last.srcerr)
    /\ last.srcerr = None => (last.kind # "err" /\ last.err = None)
\* a shadowed duplicate failed in a three-way tie
C13_Witness ==
    /\ last.kind = "err" /\ Cardinality(last.tie) = 3
    /\ last.srcerr # None /\ last.srcerr # last.idx

\* C14: every wrapper in the heap holds a valid iterator, after create and
\* after every call of next().
C14_HeapValid == \A i \in iters : IterValid(i, pos)
\* a call advanced a shadowed duplicate to its end and dropped it, while the
\* reinserted winner and another wrapper stayed in the heap
C14_Witness ==
    /\ last.kind = "ok" /\ last.idx \subseteq iters /\ Cardinality(iters) >= 2
    /\ \E i \in last.tie : ~IterValid(i, pos) /\ i \notin iters

\* C15: a call of next() that returns Ok with winner key K moves the winner
\* and every other heap wrapper showing K one step on, and nothing else: a
\* wrapper showing another key keeps its position and stays in the heap, and
\* a source outside the heap is not touched.
C15_Frame ==
    [][last'.kind = "ok" =>
         LET K == last'.key
             T == {i \in iters : IterKey(i, pos) = K}
         IN  /\ last'.idx \subseteq T
             /\ \A i \in DOMAIN src :
                   pos'[i] = IF i \in T THEN pos[i] + 1 ELSE pos[i]
             /\ \A i \in iters \ T : i \in iters']_vars
\* a call resolved a tie while a wrapper showing a larger key stayed where it was
C15_Witness ==
    /\ last.kind = "ok" /\ Cardinality(last.tie) >= 2
    /\ \E i \in iters \ last.tie : pos[i] = 1 /\ IterKey(i, pos) > last.key

\* the merge is exhausted: empty heap and no held winner
Exhausted == iters = {} /\ current = None

\* C18: with sources that never fail, a caller that keeps calling next()
\* reaches the exhausted state and stays there; every call on a non-empty
\* heap moves at least one source on and none back, and a call in the
\* exhausted state changes neither heap, current nor any source.
C18_Terminates ==
    /\ <>[]Exhausted
    /\ [][/\ iters # {} => /\ \E i \in DOMAIN src : pos'[i] > pos[i]
                           /\ \A i \in DOMAIN src : pos'[i] >= pos[i]
          /\ Exhausted => (Exhausted' /\ pos' = pos /\ out' = out)]_vars
\* next() was called on the exhausted merge after every key was resolved
C18_Witness ==
    /\ Exhausted /\ last.kind = "empty" /\ resolved = 1..MaxKey
    /\ Cardinality(DOMAIN src) = MaxIters

\* C19: when a source's next() fails during a call of next(), every wrapper
\* that was in the heap before the call and did not fail is in the heap after
\* it, at the position it had.
C19_ErrKeepsSources ==
    [][(last'.kind = "err" /\ nfail' = nfail + 1) =>
         \A i \in iters \ last'.srcerr : i \in iters' /\ pos'[i] = pos[i]]_vars

----------------------------------------------------------------------------
(* Table builder: claims *)

Built == bstate = "built"
\* the entries of the blocks held in buffer buf and indexed by metas ms, whose
\* last block ends at position stop
BlocksEntries(buf, ms, stop) ==
    LET end(i) == IF i = Len(ms) THEN stop ELSE ms[i + 1].offset
    IN  Flatten([i \in 1..Len(ms) |->
                   BlockEntries(decode(Slice(buf, ms[i].offset, end(i))))])
\* the keys handed to add were strictly ascending
AscendingAdds == \A i \in 1..(Len(added) - 1) : KeyLess(added[i][1], added[i + 1][1])

\* C6: the blocks of the table, decoded in block_meta order, give back the
\* added entries in their order, each once; while the builder is open the
\* finalized blocks followed by the block under construction do; two or more
\* rotations forced by add leave at least two block metas.
C6_BlocksReproduceEntries ==
    /\ Built =>
        /\ BlocksEntries(file, table[1].block_meta, table[1].block_meta_offset) = added
        /\ rotations >= 2 => Len(table[1].block_meta) >= 2
    /\ bstate = "open" =>
        BlocksEntries(data, meta, Len(data)) \o BlockEntries(BlockBuilder_build(builder))
            = added
\* a table was built after add rotated twice
C6_Witness == Built /\ rotations >= 2 /\ Len(added) = MaxAdds

C8_TableKeyRange ==
    (Built /\ AscendingAdds /\ added # <<>>) =>
        LET bm == table[1].block_meta
        IN  /\ table[1].first_key = bm[1].first_key
            /\ table[1].first_key = added[1][1]
            /\ table[1].last_key = bm[Len(bm)].last_key
            /\ table[1].last_key = added[Len(added)][1]

\* C9: build on a builder that was given no entry returns no table and
\* persists nothing.
C9_EmptyBuildRejected == added = <<>> => (table = <<>> /\ file = <<>>)

\* C10: the persisted buffer is the encoded blocks in the order they were
\* finalized, then the meta section, then a 4-byte big-endian footer holding
\* the offset where the meta section starts; block_meta_offset is that value.
C10_FileLayout ==
    Built =>
        LET bm == table[1].block_meta
            off == table[1].block_meta_offset
            n == Len(file)
            end(i) == IF i = Len(bm) THEN off ELSE bm[i + 1].offset
        IN  /\ n >= off + 4
            /\ FromU32BE(Slice(file, n - 4, n)) = off
            /\ Slice(file, off, n - 4) = encode_block_meta(bm)
            /\ Slice(file, 0, off) = data
            /\ bm[1].offset = 0
            /\ \A i \in 1..Len(bm) : bm[i].offset < end(i)
            /\ Slice(file, 0, off) =
                 Flatten([i \in 1..Len(bm) |->
                            encode(decode(Slice(file, bm[i].offset, end(i))))])
\* a table of three or more blocks was persisted
C10_Witness == Built /\ Len(table[1].block_meta) >= 3 /\ Len(file) > 4
\* entry e = <<key, value>> is accepted by an empty block of this builder
FitsEmpty(e) == BlockBuilder_fits(BlockBuilder_new(block_size), e[1], e[2])

\* C12: once add was given an entry that an empty block rejects, the builder
\* has stopped on the failed assert: it is not open, and no table was built
\* or persisted without that entry.
C12_OversizedAborts ==
    (\E i \in 1..Len(added) : ~FitsEmpty(added[i])) =>
        (bstate = "panicked" /\ table = <<>> /\ file = <<>>)
\* the assert failed on an entry that came after accepted ones
C12_Witness ==
    /\ bstate = "panicked" /\ Len(added) >= 2
    /\ ~FitsEmpty(added[Len(added)]) /\ FitsEmpty(added[1])

C17_EstimatedSize ==
    [][/\ estimated_size' >= estimated_size
       /\ estimated_size' = Len(Flatten(blocks'))
       /\ Len(added') = Len(added) + 1 =>
            LET e == added'[Len(added')]
                encoded == encode(BlockBuilder_build(builder))
            IN  IF BlockBuilder_fits(builder, e[1], e[2])
                THEN /\ estimated_size' = estimated_size
                     /\ data' = data /\ meta' = meta
                ELSE /\ estimated_size' = estimated_size + Len(encoded)
                     /\ data' = data \o encoded
                     /\ Len(meta') = Len(meta) + 1
                     /\ SubSeq(meta', 1, Len(meta)) = meta]_vars
\* after a rotation the fresh block accepted a second entry
C17_Witness ==
    /\ bstate = "open" /\ rotations >= 1 /\ Len(builder.offsets) = 2
    /\ estimated_size > 0

----------------------------------------------------------------------------
(* Block codec: claims *)

\* C11: decoding the encoding of a block gives back the block's data bytes
\* and its offsets, for every block, the one without entries included.
C11_RoundTrip ==
    dec # <<>> => (dec[1].data = block.data /\ dec[1].offsets = block.offsets)
\* a block with data and MaxOffsets offsets, one of them above 255, went
\* through encode and decode
C11_Witness ==
    /\ dec # <<>> /\ block.data # <<>> /\ Len(block.offsets) = MaxOffsets
    /\ \E i \in 1..Len(block.offsets) : block.offsets[i] > 255
====
